---- MODULE Spec2Model ----
(***************************************************************************)
(* Model of the `run` workflow of autoe2e (src/src/autoe2e/cli.py) together *)
(* with the Reporter it drives (src/src/autoe2e/reporter.py).               *)
(*                                                                         *)
(* One behaviour is one invocation of `autoe2e run`.  The command line and *)
(* the spec file (keep_on_fail, collect_mode) and the initial content of   *)
(* the artifacts directory (junit) are chosen in Init; the return codes of *)
(* the external processes (up, pytest, down) are chosen when the workflow  *)
(* calls them.  `calls` is the log of the calls the workflow has made.     *)
(*                                                                         *)
(* The components are also driven on their own, each by a specification    *)
(* that holds the others idle: ParseSpec and ReporterSpec (reporter.py),   *)
(* RunnerSpec (runner.py), PollSpec, ProbeSpec and DockerSpec              *)
(* (docker_runner.py).  HostSpec runs two commands of the cli (run, up,    *)
(* down, status) side by side on one host, with the run_id each call       *)
(* carries, the projects that exist and the artifacts directories.         *)
(***************************************************************************)
EXTENDS Integers, Sequences, FiniteSets, TLC

\* ---------------------------------------------------------------- bounds
MaxExit == 2    \* return codes of the external processes range over 0..MaxExit
MaxTests == 2   \* largest `tests` count of a result file
MaxTick == 1    \* largest clock advance during one blocking call
MaxChecks == 2     \* longest health_checks list
MaxParallel == 2   \* largest worker count requested with --parallel
MaxClock == 2   \* latest clock reading while the Reporter is driven on its own

\* Python's None (an unset timestamp, a call not yet made, a null field)
Null == -1

ExitCodes == 0..MaxExit

\* reporter.py 54: a reason keeps the first 200 characters of the message
ReasonLimit == 200

\* Lengths of the `message` attribute of a <failure> or <error> element
\* (0: the attribute is empty or missing); Null: the case has no such element.
MsgLens == {0, ReasonLimit + 1}

\* A <testcase> element.  classname "None" is a missing attribute, as the
\* f-string of reporter.py 53 renders it.
Cases == [classname : {"None", "tests.test_crud"}, name : {"test_a"},
          failure : {Null} \cup MsgLens, error : {Null} \cup MsgLens]

CaseLists == UNION {[1..n -> Cases] : n \in 0..MaxTests}

\* A well-formed reports/junit.xml, reduced to what the Reporter reads: the
\* counts declared by the (first) <testsuite> element and its <testcase>
\* children.  wrapped: the root is a <testsuites> element holding the
\* <testsuite> (it carries no counts of its own, as pytest writes it);
\* otherwise the root is the <testsuite> itself.
JunitFiles ==
    { f \in [wrapped : BOOLEAN, tests : 0..MaxTests, failures : 0..MaxTests,
             errors : 0..MaxTests, cases : CaseLists] :
        f.failures + f.errors <= f.tests }

\* The <testcase> pytest writes for a test that passed, failed (a <failure>
\* child) or could not run (an <error> child).
PytestCase(outcome) ==
    [classname |-> "tests.test_crud", name |-> "test_a",
     failure |-> IF outcome = "failed" THEN 0 ELSE Null,
     error   |-> IF outcome = "error" THEN 0 ELSE Null]

\* The result file pytest writes for a session with these test outcomes.
PytestFile(outcomes) ==
    [wrapped  |-> TRUE,
     tests    |-> Len(outcomes),
     failures |-> Cardinality({i \in DOMAIN outcomes : outcomes[i] = "failed"}),
     errors   |-> Cardinality({i \in DOMAIN outcomes : outcomes[i] = "error"}),
     cases    |-> [i \in DOMAIN outcomes |-> PytestCase(outcomes[i])]]

PytestFiles ==
    { PytestFile(o) :
        o \in UNION {[1..n -> {"passed", "failed", "error"}] : n \in 0..MaxTests} }

\* The file does not exist.
Absent == [wrapped |-> FALSE, tests |-> Null, failures |-> Null,
           errors |-> Null, cases |-> <<>>]

NoSummary == [exit_code |-> Null, timestamp |-> Null,
              environment_bring_up_time_seconds |-> Null,
              test_runtime_seconds |-> Null,
              total_tests |-> Null, passed |-> Null, failed |-> Null,
              failures |-> <<>>]

\* No TestRunner, no wait_for_health call, no collect_artifacts call
RunnerIdle == [pc |-> "idle"]
PollIdle == [pc |-> "idle"]
DockerIdle == [pc |-> "idle"]
ProbeIdle == [pc |-> "idle"]

\* No command is running and the host is not looked at
HostIdle == [backend_ok |-> TRUE, projects |-> {}, serving |-> "None",
             files |-> <<>>]
NoProcs == <<>>

\* parse_junit_xml has not been called
NoParse == [total |-> Null, passed |-> Null, failed |-> Null, failures |-> <<>>]

VARIABLES
    pc,               \* position of the workflow in run()
    keep_on_fail,     \* --keep-on-fail
    collect_mode,     \* config.artifacts.collect
    junit,            \* <artifacts_dir>/reports/junit.xml
    now,              \* the clock read by datetime.now()
    start_time,       \* Reporter.start_time
    env_ready_time,   \* Reporter.env_ready_time
    test_end_time,    \* Reporter.test_end_time
    up_exit,          \* return code of ansible.up
    test_exit,        \* return code of runner.run
    down_rc,          \* return code of ansible.down (discarded by run)
    final_exit_code,
    should_teardown,
    env,              \* the environment of this run_id
    summary,          \* <artifacts_dir>/reports/summary.json
    calls,            \* the calls made so far, in order
    process_exit,     \* the argument of sys.exit
    parsed,           \* the value returned by Reporter.parse_junit_xml
    runner,           \* a TestRunner and the pytest process it starts
    poll,             \* a call of DockerRunner.wait_for_health
    docker,           \* a call of DockerRunner.collect_artifacts
    probe,            \* a call of _check_http or _check_tcp on its own
    host,             \* the machine the commands run on: projects and files
    procs             \* the autoe2e commands running on the host

\* the state of a `run`
runVars == <<pc, keep_on_fail, collect_mode, junit, now, start_time,
             env_ready_time, test_end_time, up_exit, test_exit, down_rc,
             final_exit_code, should_teardown, env, summary, calls,
             process_exit>>

\* the state of the components exercised on their own
aux == <<parsed, runner, poll, docker, probe, host, procs>>

\* the state of the commands running side by side on one host
cmdVars == <<host, procs>>

vars == <<runVars, aux>>

Count(op) == Cardinality({i \in DOMAIN calls : calls[i] = op})

\* ------------------------------------------------------------- Reporter
Min(a, b) == IF a <= b THEN a ELSE b

\* FailureEntries keeping the whole message
FailureEntries_WholeMessage(cases) ==
    LET failing == SelectSeq(cases, LAMBDA c : c.failure # Null \/ c.error # Null)
        Entry(c) ==
            LET from == IF c.failure # Null THEN "failure" ELSE "error"
                len  == IF c.failure # Null THEN c.failure ELSE c.error
            IN  [name   |-> c.classname \o "." \o c.name,
                 reason |-> [of |-> from, len |-> len]]
    IN  [i \in DOMAIN failing |-> Entry(failing[i])]

\* reporter.py 47-55: the failure entries of the <testcase> children, in
\* document order
FailureEntries(cases) ==
    LET failing == SelectSeq(cases, LAMBDA c : c.failure # Null \/ c.error # Null)
        Entry(c) ==
            LET from == IF c.failure # Null THEN "failure" ELSE "error"
                len  == IF c.failure # Null THEN c.failure ELSE c.error
            IN  [name   |-> c.classname \o "." \o c.name,
                 reason |-> [of |-> from, len |-> Min(len, ReasonLimit)]]
    IN  [i \in DOMAIN failing |-> Entry(failing[i])]

\* reporter.py 41: `root.find("testsuite") or root`.  An Element is false
\* when it has no children, so a <testsuite> that is found but has no
\* children is dropped for the root.
UsesSuite(file) == ~file.wrapped \/ file.cases # <<>>

\* ParseJunitXml without the test for a missing file
ParseJunitXml_NoExistsTest(file) ==
    [total  |-> file.tests,
     passed |-> file.tests - file.failures - file.errors,
     failed |-> file.failures + file.errors,
     failures |-> FailureEntries(file.cases)]

ParseJunitXml(file) ==
    IF file = Absent
    THEN [total |-> 0, passed |-> 0, failed |-> 0, failures |-> <<>>]
    ELSE IF UsesSuite(file)
    THEN [total  |-> file.tests,
          passed |-> file.tests - file.failures - file.errors,
          failed |-> file.failures + file.errors,
          failures |-> FailureEntries(file.cases)]
    ELSE [total |-> 0, passed |-> 0, failed |-> 0, failures |-> <<>>]

\* GenerateSummary measuring the test runtime from the start of the run
GenerateSummary_RuntimeFromStart(exit_code) ==
    LET test_results == ParseJunitXml(junit)
        env_time  == IF start_time # Null /\ env_ready_time # Null
                     THEN env_ready_time - start_time ELSE Null
        test_time == IF start_time # Null /\ test_end_time # Null
                     THEN test_end_time - start_time ELSE Null
    IN  [exit_code |-> exit_code,
         timestamp |-> start_time,
         environment_bring_up_time_seconds |-> env_time,
         test_runtime_seconds |-> test_time,
         total_tests |-> test_results.total,
         passed |-> test_results.passed,
         failed |-> test_results.failed,
         failures |-> test_results.failures]

GenerateSummary(exit_code) ==
    LET test_results == ParseJunitXml(junit)
        env_time  == IF start_time # Null /\ env_ready_time # Null
                     THEN env_ready_time - start_time ELSE Null
        test_time == IF env_ready_time # Null /\ test_end_time # Null
                     THEN test_end_time - env_ready_time ELSE Null
    IN  [exit_code |-> exit_code,
         timestamp |-> start_time,
         environment_bring_up_time_seconds |-> env_time,
         test_runtime_seconds |-> test_time,
         total_tests |-> test_results.total,
         passed |-> test_results.passed,
         failed |-> test_results.failed,
         failures |-> test_results.failures]

\* ---------------------------------------------- environment controller
\* States the environment can be in once `up` has returned rc: `up` starts
\* the environment and does not itself wait for readiness.
EnvAfterUp(rc) ==
    IF rc = 0 THEN {"started", "ready"} ELSE {"absent", "started"}

\* States the environment can be in once `down` has returned rc.
EnvAfterDown(rc, e) ==
    IF rc = 0 THEN {"absent"} ELSE {"absent", e}

\* ------------------------------------------------------------- run()
\* No component is exercised on its own during a `run`.
AuxIdle ==
    /\ parsed = NoParse
    /\ runner = RunnerIdle
    /\ poll = PollIdle
    /\ docker = DockerIdle
    /\ probe = ProbeIdle
    /\ host = HostIdle
    /\ procs = NoProcs

Init ==
    /\ pc = "start"
    /\ keep_on_fail \in BOOLEAN
    /\ collect_mode \in {"on_fail", "always"}
    /\ junit \in {Absent} \cup PytestFiles
    /\ now = 0
    /\ start_time = Null
    /\ env_ready_time = Null
    /\ test_end_time = Null
    /\ up_exit = Null
    /\ test_exit = Null
    /\ down_rc = Null
    /\ final_exit_code = Null
    /\ should_teardown = TRUE
    /\ env = "absent"
    /\ summary = NoSummary
    /\ calls = <<>>
    /\ process_exit = Null
    /\ AuxIdle

\* Start without the call of mark_start
Start_NoMarkStart ==
    /\ pc = "start"
    /\ final_exit_code' = 0
    /\ should_teardown' = TRUE
    /\ pc' = "up"
    /\ UNCHANGED <<aux, keep_on_fail, collect_mode, junit, now, start_time,
                   env_ready_time, test_end_time, up_exit, test_exit, down_rc,
                   env, summary, calls, process_exit>>

\* cli.py 122-136: load the config, create the Reporter, mark_start
Start ==
    /\ pc = "start"
    /\ start_time' = now
    /\ final_exit_code' = 0
    /\ should_teardown' = TRUE
    /\ pc' = "up"
    /\ UNCHANGED <<aux, keep_on_fail, collect_mode, junit, now, env_ready_time,
                   test_end_time, up_exit, test_exit, down_rc, env, summary,
                   calls, process_exit>>

\* cli.py 142-148: up_exit = ansible.up(...)
Up ==
    /\ pc = "up"
    /\ \E rc \in ExitCodes, d \in 0..MaxTick :
         /\ up_exit' = rc
         /\ env' \in EnvAfterUp(rc)
         /\ now' = now + d
    /\ calls' = Append(calls, "up")
    /\ pc' = "after_up"
    /\ UNCHANGED <<aux, keep_on_fail, collect_mode, junit, start_time,
                   env_ready_time, test_end_time, test_exit, down_rc,
                   final_exit_code, should_teardown, summary, process_exit>>

\* EnvFailedCollect with the collection left to the artifact policy
EnvFailedCollect_PolicyGated ==
    /\ pc = "after_up"
    /\ up_exit # 0
    /\ final_exit_code' = 2
    /\ IF collect_mode = "always"
       THEN /\ calls' = Append(calls, "collect_artifacts")
            /\ \E d \in 0..MaxTick : now' = now + d
       ELSE UNCHANGED <<calls, now>>
    /\ pc' = "ef_summary"
    /\ UNCHANGED <<aux, keep_on_fail, collect_mode, junit, start_time,
                   env_ready_time, test_end_time, up_exit, test_exit, down_rc,
                   should_teardown, env, summary, process_exit>>

\* cli.py 150-158: the environment failed to start
EnvFailedCollect ==
    /\ pc = "after_up"
    /\ up_exit # 0
    /\ final_exit_code' = 2
    /\ calls' = Append(calls, "collect_artifacts")
    /\ \E d \in 0..MaxTick : now' = now + d
    /\ pc' = "ef_summary"
    /\ UNCHANGED <<aux, keep_on_fail, collect_mode, junit, start_time,
                   env_ready_time, test_end_time, up_exit, test_exit, down_rc,
                   should_teardown, env, summary, process_exit>>

\* cli.py 159: reporter.write_summary(final_exit_code)
EnvFailedWriteSummary ==
    /\ pc = "ef_summary"
    /\ summary' = GenerateSummary(final_exit_code)
    /\ calls' = Append(calls, "write_summary")
    /\ pc' = "ef_down"
    /\ UNCHANGED <<aux, keep_on_fail, collect_mode, junit, now, start_time,
                   env_ready_time, test_end_time, up_exit, test_exit, down_rc,
                   final_exit_code, should_teardown, env, process_exit>>

\* cli.py 160-161: if not keep_on_fail: ansible.down(...)
EnvFailedDown ==
    /\ pc = "ef_down"
    /\ IF ~keep_on_fail
       THEN /\ \E rc \in ExitCodes, d \in 0..MaxTick :
                 /\ down_rc' = rc
                 /\ env' \in EnvAfterDown(rc, env)
                 /\ now' = now + d
            /\ calls' = Append(calls, "down")
       ELSE UNCHANGED <<down_rc, env, now, calls>>
    /\ pc' = "ef_exit"
    /\ UNCHANGED <<aux, keep_on_fail, collect_mode, junit, start_time,
                   env_ready_time, test_end_time, up_exit, test_exit,
                   final_exit_code, should_teardown, summary, process_exit>>

\* cli.py 162: sys.exit(final_exit_code)
EnvFailedExit ==
    /\ pc = "ef_exit"
    /\ process_exit' = final_exit_code
    /\ pc' = "done"
    /\ UNCHANGED <<aux, keep_on_fail, collect_mode, junit, now, start_time,
                   env_ready_time, test_end_time, up_exit, test_exit, down_rc,
                   final_exit_code, should_teardown, env, summary, calls>>

\* cli.py 164: reporter.mark_env_ready()
MarkEnvReady ==
    /\ pc = "after_up"
    /\ up_exit = 0
    /\ env_ready_time' = now
    /\ pc' = "test"
    /\ UNCHANGED <<aux, keep_on_fail, collect_mode, junit, now, start_time,
                   test_end_time, up_exit, test_exit, down_rc, final_exit_code,
                   should_teardown, env, summary, calls, process_exit>>

\* Result files pytest can leave behind when it returns rc: a passing session
\* writes a file without failures; a failing one writes a file, or (usage
\* error, crash) leaves the directory as it found it.
JunitAfterTests(rc, old) ==
    IF rc = 0
    THEN {f \in PytestFiles : f.failures = 0 /\ f.errors = 0}
    ELSE PytestFiles \cup {old}

\* cli.py 169-170 and runner.py 40-44: test_exit = runner.run()
RunTests ==
    /\ pc = "test"
    /\ \E rc \in ExitCodes, d \in 0..MaxTick :
         /\ test_exit' = rc
         /\ junit' \in JunitAfterTests(rc, junit)
         /\ now' = now + d
    /\ calls' = Append(calls, "test")
    /\ pc' = "mark_test_end"
    /\ UNCHANGED <<aux, keep_on_fail, collect_mode, start_time, env_ready_time,
                   test_end_time, up_exit, down_rc, final_exit_code,
                   should_teardown, env, summary, process_exit>>

\* cli.py 171: reporter.mark_test_end()
MarkTestEnd ==
    /\ pc = "mark_test_end"
    /\ test_end_time' = now
    /\ pc' = "verdict"
    /\ UNCHANGED <<aux, keep_on_fail, collect_mode, junit, now, start_time,
                   env_ready_time, up_exit, test_exit, down_rc,
                   final_exit_code, should_teardown, env, summary, calls,
                   process_exit>>

\* TestPhaseExitCode passing the test executor's code through
TestPhaseExitCode_PassThrough(texit, code) == IF texit # 0 THEN texit ELSE code

\* cli.py 173-175: the exit code after the test phase
TestPhaseExitCode(texit, code) == IF texit # 0 THEN 1 ELSE code

\* TeardownAfterTests ignoring --keep-on-fail
TeardownAfterTests_IgnoresFlag(texit, keep, st) == st

\* cli.py 173-177: teardown is kept unless the tests failed under --keep-on-fail
TeardownAfterTests(texit, keep, st) ==
    IF texit # 0 /\ keep THEN FALSE ELSE st

\* cli.py 173-178
TestVerdict ==
    /\ pc = "verdict"
    /\ final_exit_code' = TestPhaseExitCode(test_exit, final_exit_code)
    /\ should_teardown' = TeardownAfterTests(test_exit, keep_on_fail, should_teardown)
    /\ pc' = "collect"
    /\ UNCHANGED <<aux, keep_on_fail, collect_mode, junit, now, start_time,
                   env_ready_time, test_end_time, up_exit, test_exit, down_rc,
                   env, summary, calls, process_exit>>

\* ShouldCollect collecting on every run
ShouldCollect_Always(code, mode) == TRUE

\* ShouldCollect looking at the policy only
ShouldCollect_PolicyOnly(code, mode) == mode = "always"

\* cli.py 182: if final_exit_code != 0 or collect_mode == "always"
ShouldCollect(code, mode) == code # 0 \/ mode = "always"

\* cli.py 181-189
Collect ==
    /\ pc = "collect"
    /\ IF ShouldCollect(final_exit_code, collect_mode)
       THEN /\ calls' = Append(calls, "collect_artifacts")
            /\ \E d \in 0..MaxTick : now' = now + d
       ELSE UNCHANGED <<calls, now>>
    /\ pc' = "summary"
    /\ UNCHANGED <<aux, keep_on_fail, collect_mode, junit, start_time,
                   env_ready_time, test_end_time, up_exit, test_exit, down_rc,
                   final_exit_code, should_teardown, env, summary,
                   process_exit>>

\* WriteSummary that writes nothing
WriteSummary_Missing ==
    /\ pc = "summary"
    /\ pc' = "teardown"
    /\ UNCHANGED <<aux, keep_on_fail, collect_mode, junit, now, start_time,
                   env_ready_time, test_end_time, up_exit, test_exit, down_rc,
                   final_exit_code, should_teardown, env, summary, calls,
                   process_exit>>

\* cli.py 192: reporter.write_summary(final_exit_code)
WriteSummary ==
    /\ pc = "summary"
    /\ summary' = GenerateSummary(final_exit_code)
    /\ calls' = Append(calls, "write_summary")
    /\ pc' = "teardown"
    /\ UNCHANGED <<aux, keep_on_fail, collect_mode, junit, now, start_time,
                   env_ready_time, test_end_time, up_exit, test_exit, down_rc,
                   final_exit_code, should_teardown, env, process_exit>>

\* Teardown that turns a failed `down` into the exit code of a passing run
Teardown_Propagates ==
    /\ pc = "teardown"
    /\ IF should_teardown
       THEN /\ \E rc \in ExitCodes, d \in 0..MaxTick :
                 /\ down_rc' = rc
                 /\ env' \in EnvAfterDown(rc, env)
                 /\ now' = now + d
                 /\ final_exit_code' =
                        (IF rc # 0 /\ final_exit_code = 0 THEN rc ELSE final_exit_code)
            /\ calls' = Append(calls, "down")
       ELSE UNCHANGED <<down_rc, env, now, calls, final_exit_code>>
    /\ pc' = "exit"
    /\ UNCHANGED <<aux, keep_on_fail, collect_mode, junit, start_time,
                   env_ready_time, test_end_time, up_exit, test_exit,
                   should_teardown, summary, process_exit>>

\* cli.py 195-198: if should_teardown: ansible.down(...)
Teardown ==
    /\ pc = "teardown"
    /\ IF should_teardown
       THEN /\ \E rc \in ExitCodes, d \in 0..MaxTick :
                 /\ down_rc' = rc
                 /\ env' \in EnvAfterDown(rc, env)
                 /\ now' = now + d
            /\ calls' = Append(calls, "down")
       ELSE UNCHANGED <<down_rc, env, now, calls>>
    /\ pc' = "exit"
    /\ UNCHANGED <<aux, keep_on_fail, collect_mode, junit, start_time,
                   env_ready_time, test_end_time, up_exit, test_exit,
                   final_exit_code, should_teardown, summary, process_exit>>

\* cli.py 201-210: sys.exit(final_exit_code)
Exit ==
    /\ pc = "exit"
    /\ process_exit' = final_exit_code
    /\ pc' = "done"
    /\ UNCHANGED <<aux, keep_on_fail, collect_mode, junit, now, start_time,
                   env_ready_time, test_end_time, up_exit, test_exit, down_rc,
                   final_exit_code, should_teardown, env, summary, calls>>

Next ==
    \/ Start
    \/ Up
    \/ EnvFailedCollect
    \/ EnvFailedWriteSummary
    \/ EnvFailedDown
    \/ EnvFailedExit
    \/ MarkEnvReady
    \/ RunTests
    \/ MarkTestEnd
    \/ TestVerdict
    \/ Collect
    \/ WriteSummary
    \/ Teardown
    \/ Exit

Spec == Init /\ [][Next]_vars

\* ------------------------------------------------------------ properties
Terminated == pc = "done"

\* The environment failed to start: `up` has returned a nonzero code.
EnvFailed == up_exit # Null /\ up_exit # 0

\* The environment became ready and the test executor returned texit.
TestsFailed == up_exit = 0 /\ test_exit # Null /\ test_exit # 0
TestsPassed == up_exit = 0 /\ test_exit = 0

\* Positions of the calls of op in the log
Calls(op) == {i \in DOMAIN calls : calls[i] = op}

\* C1: whenever the environment fails to start, `down` has been invoked
\* exactly once when the run terminates, whatever the keep-on-fail flag.
C1_DownOnEnvFailure ==
    (Terminated /\ EnvFailed) => Count("down") = 1

\* C2: whenever `up` returns nonzero the test executor is never invoked,
\* and the run ends with exit code 2 after exactly one collect_artifacts,
\* under either artifact policy.
C2_EnvFailureOutcome ==
    /\ EnvFailed => Count("test") = 0
    /\ (Terminated /\ EnvFailed) =>
          /\ process_exit = 2
          /\ Count("collect_artifacts") = 1

C2_Witness ==
    /\ Terminated
    /\ EnvFailed
    /\ collect_mode = "on_fail"
    /\ process_exit = 2
    /\ Count("collect_artifacts") = 1

\* C3: whenever the environment fails to start, the summary written has no
\* bring-up time, no test runtime and total_tests = 0, for every initial
\* content of the artifacts directory.
C3_EnvFailureSummary ==
    (EnvFailed /\ summary # NoSummary) =>
        /\ summary.environment_bring_up_time_seconds = Null
        /\ summary.test_runtime_seconds = Null
        /\ summary.total_tests = 0

\* C4: environment ready, test executor nonzero, keep-on-fail set: `down` is
\* never invoked, and the run ends with exit code 1, one collect_artifacts
\* (either policy) and the summary written.  With the flag unset, the run
\* ends with exactly one `down`.
C4_TestFailureRetention ==
    /\ (TestsFailed /\ keep_on_fail) => Count("down") = 0
    /\ (Terminated /\ TestsFailed) =>
          /\ process_exit = 1
          /\ Count("collect_artifacts") = 1
          /\ Count("write_summary") = 1
          /\ summary # NoSummary
          /\ Count("down") = (IF keep_on_fail THEN 0 ELSE 1)

C4_Witness ==
    /\ Terminated
    /\ TestsFailed
    /\ keep_on_fail
    /\ collect_mode = "on_fail"
    /\ Count("down") = 0
    /\ env # "absent"
    /\ summary.exit_code = 1

\* C5: environment ready, test executor returns 0, policy on_fail:
\* collect_artifacts is never invoked, and the run ends with exit code 0
\* after exactly one `down`, whatever the keep-on-fail flag.
C5_SuccessOnFail ==
    /\ (TestsPassed /\ collect_mode = "on_fail") => Count("collect_artifacts") = 0
    /\ (Terminated /\ TestsPassed /\ collect_mode = "on_fail") =>
          /\ Count("down") = 1
          /\ process_exit = 0

C5_Witness ==
    /\ Terminated
    /\ TestsPassed
    /\ collect_mode = "on_fail"
    /\ keep_on_fail
    /\ Count("down") = 1
    /\ Count("collect_artifacts") = 0

\* C6: collect_artifacts is invoked at most once per run, and a terminated
\* run has invoked it iff its exit code is nonzero or the policy is always.
C6_CollectIff ==
    /\ Count("collect_artifacts") <= 1
    /\ Terminated =>
          ((Count("collect_artifacts") = 1) <=>
               (process_exit # 0 \/ collect_mode = "always"))

C6_Witness ==
    /\ Terminated
    /\ process_exit = 0
    /\ collect_mode = "always"
    /\ Count("collect_artifacts") = 1

\* C7: on every path summary.json is written exactly once, after any
\* collect_artifacts call and before any `down` call of the run, and `down`
\* is invoked at most once.
C7_SummaryOnceBeforeDown ==
    /\ Count("write_summary") <= 1
    /\ Count("down") <= 1
    /\ \A i \in Calls("collect_artifacts"), j \in Calls("write_summary") : i < j
    /\ \A k \in Calls("down") : \E j \in Calls("write_summary") : j < k
    /\ Count("down") = 1 => summary # NoSummary
    /\ Terminated => (Count("write_summary") = 1 /\ summary # NoSummary)

C7_Witness ==
    /\ Terminated
    /\ calls = <<"up", "test", "collect_artifacts", "write_summary", "down">>
    /\ down_rc # 0
    /\ summary # NoSummary

\* C8: `up` is the first call of the run; the test executor is invoked, and
\* env_ready_at recorded, only after a readiness poll over the configured
\* health checks has returned true; collect_artifacts, the summary write and
\* `down` each start only after the test executor has returned.
C8_PhaseOrder ==
    /\ calls # <<>> => calls[1] = "up"
    /\ \A i \in Calls("test") : \E j \in Calls("wait_for_health") : j < i
    /\ env_ready_time # Null => Calls("wait_for_health") # {}
    /\ \A i \in Calls("collect_artifacts") \cup Calls("write_summary") \cup Calls("down") :
          \E j \in Calls("test") : j < i

\* C9: the exit code of a run is one of 0, 1, 2 and equals the exit_code of
\* the written summary; it is 2 iff the environment failed to start, 1 iff
\* the environment became ready and the test executor returned nonzero, and
\* 0 iff the test executor returned 0.
C9_ExitCode ==
    Terminated =>
        /\ process_exit \in {0, 1, 2}
        /\ process_exit = summary.exit_code
        /\ (process_exit = 2) <=> EnvFailed
        /\ (process_exit = 1) <=> TestsFailed
        /\ (process_exit = 0) <=> (test_exit = 0)

C9_Witness ==
    /\ Terminated
    /\ up_exit = 0
    /\ test_exit = 2
    /\ process_exit = 1
    /\ summary.exit_code = 1

\* A call of `down` is what this step does.
DownReturns ==
    /\ Len(calls') = Len(calls) + 1
    /\ calls'[Len(calls')] = "down"

\* C10: whatever `down` returns, the step that calls it changes neither the
\* decided exit code nor the written summary and leads to the final
\* sys.exit, and the process exits with the code the summary records.
C10_TeardownFailureSwallowed ==
    /\ [][DownReturns =>
            /\ final_exit_code' = final_exit_code
            /\ summary' = summary
            /\ pc' \in {"ef_exit", "exit"}]_vars
    /\ [][pc' = "done" =>
            /\ pc \in {"ef_exit", "exit"}
            /\ process_exit' = summary.exit_code]_vars

C10_Witness ==
    /\ Terminated
    /\ Count("down") = 1
    /\ down_rc # 0
    /\ process_exit = 0
    /\ summary.exit_code = 0

\* ------------------------------------------------ the Reporter on its own
\* No `run` is in progress: the Reporter is driven directly.
RunIdle ==
    /\ pc = "idle"
    /\ keep_on_fail = FALSE
    /\ collect_mode = "on_fail"
    /\ now = 0
    /\ start_time = Null
    /\ env_ready_time = Null
    /\ test_end_time = Null
    /\ up_exit = Null
    /\ test_exit = Null
    /\ down_rc = Null
    /\ final_exit_code = Null
    /\ should_teardown = TRUE
    /\ env = "absent"
    /\ summary = NoSummary
    /\ calls = <<>>
    /\ process_exit = Null

\* A Reporter over an artifacts directory with any result file, or none.
ParseInit ==
    /\ RunIdle
    /\ junit \in {Absent} \cup JunitFiles
    /\ AuxIdle

\* reporter.py 32-62: parse_junit_xml()
ParseResults ==
    /\ parsed = NoParse
    /\ parsed' = ParseJunitXml(junit)
    /\ UNCHANGED <<runVars, cmdVars, runner, poll, docker, probe>>

ParseNext == ParseResults

ParseSpec == ParseInit /\ [][ParseNext]_vars

\* A fresh Reporter (reporter.py 13-18) over a directory pytest may have
\* written to.
ReporterInit ==
    /\ RunIdle
    /\ junit \in {Absent} \cup PytestFiles
    /\ AuxIdle

reporterFrame == <<pc, keep_on_fail, collect_mode, junit, up_exit, test_exit,
                   down_rc, should_teardown, env, calls, process_exit, aux>>

\* time passes between two calls
ClockTick ==
    /\ now < MaxClock
    /\ now' = now + 1
    /\ UNCHANGED <<start_time, env_ready_time, test_end_time, summary,
                   final_exit_code, reporterFrame>>

\* reporter.py 20-22
MarkStart ==
    /\ start_time' = now
    /\ UNCHANGED <<now, env_ready_time, test_end_time, summary,
                   final_exit_code, reporterFrame>>

\* reporter.py 24-26
MarkEnvReadyCall ==
    /\ env_ready_time' = now
    /\ UNCHANGED <<now, start_time, test_end_time, summary,
                   final_exit_code, reporterFrame>>

\* reporter.py 28-30
MarkTestEndCall ==
    /\ test_end_time' = now
    /\ UNCHANGED <<now, start_time, env_ready_time, summary,
                   final_exit_code, reporterFrame>>

\* reporter.py 88-98: write_summary(exit_code); final_exit_code holds the
\* argument
WriteSummaryCall ==
    /\ \E code \in ExitCodes :
         /\ final_exit_code' = code
         /\ summary' = GenerateSummary(code)
    /\ UNCHANGED <<now, start_time, env_ready_time, test_end_time,
                   reporterFrame>>

ReporterNext ==
    \/ ClockTick
    \/ MarkStart
    \/ MarkEnvReadyCall
    \/ MarkTestEndCall
    \/ WriteSummaryCall

ReporterSpec == ReporterInit /\ [][ReporterNext]_vars

\* C17: parse_junit_xml over a directory without reports/junit.xml returns
\* total 0, passed 0, failed 0 and an empty failure list.
C17_MissingFile ==
    (parsed # NoParse /\ junit = Absent) =>
        parsed = [total |-> 0, passed |-> 0, failed |-> 0, failures |-> <<>>]

C17_Witness ==
    /\ junit = Absent
    /\ parsed # NoParse
    /\ parsed.total = 0
    /\ parsed.failures = <<>>

\* C18: for every result file declaring tests=T, failures=F, errors=E,
\* parse_junit_xml returns total=T, failed=F+E and passed=T-F-E.
C18_DeclaredCounts ==
    (parsed # NoParse /\ junit # Absent) =>
        /\ parsed.total = junit.tests
        /\ parsed.failed = junit.failures + junit.errors
        /\ parsed.passed = junit.tests - junit.failures - junit.errors

\* C19: generate_summary sets the bring-up time to env_ready - start exactly
\* when both are set and to null otherwise, the test runtime to
\* test_end - env_ready exactly when both are set and to null otherwise,
\* takes the counts and the failure list from parse_junit_xml and passes
\* its exit_code argument through.
C19_GenerateSummary ==
    [][summary' # summary =>
        /\ summary'.environment_bring_up_time_seconds =
              (IF start_time # Null /\ env_ready_time # Null
               THEN env_ready_time - start_time ELSE Null)
        /\ summary'.test_runtime_seconds =
              (IF env_ready_time # Null /\ test_end_time # Null
               THEN test_end_time - env_ready_time ELSE Null)
        /\ summary'.total_tests = ParseJunitXml(junit).total
        /\ summary'.passed = ParseJunitXml(junit).passed
        /\ summary'.failed = ParseJunitXml(junit).failed
        /\ summary'.failures = ParseJunitXml(junit).failures
        /\ summary'.exit_code = final_exit_code']_vars

\* a summary written with a start and an end but no env-ready timestamp
C19_Witness ==
    /\ summary # NoSummary
    /\ start_time = 0
    /\ env_ready_time = Null
    /\ test_end_time = 2
    /\ summary.timestamp = 0
    /\ summary.environment_bring_up_time_seconds = Null
    /\ summary.test_runtime_seconds = Null
    /\ summary.exit_code = 2
    /\ summary.failures # <<>>

\* ---------------------------------------------- the TestRunner on its own
\* --suite values (cli.py 108; "" is `--suite ""`)
Suites == {"all", "smoke", "regression", ""}

\* --artifacts-dir values; Null: the argument is left out
ArtifactDirs == {"artifacts/4f2a", "out"}

\* reporter.py 34: the result file the Reporter of this directory reads
ReporterJunitPath(dir) == dir \o "/reports" \o "/junit.xml"

\* BuildPytestArgs without the test for the suite "all"
BuildPytestArgs_NoAllTest(suite, parallel, dir) ==
    <<"python", "-m", "pytest", "tests", "-v">>
      \o (IF suite # "" THEN <<"-m", suite>> ELSE <<>>)
      \o (IF parallel # Null /\ parallel # 0 /\ parallel > 1
          THEN <<"-n", ToString(parallel)>> ELSE <<>>)
      \o <<"--junit-xml", dir \o "/reports" \o "/junit.xml">>

\* runner.py 21-38: build_pytest_args()
BuildPytestArgs(suite, parallel, dir) ==
    <<"python", "-m", "pytest", "tests", "-v">>
      \o (IF suite # "" /\ suite # "all" THEN <<"-m", suite>> ELSE <<>>)
      \o (IF parallel # Null /\ parallel # 0 /\ parallel > 1
          THEN <<"-n", ToString(parallel)>> ELSE <<>>)
      \o <<"--junit-xml", dir \o "/reports" \o "/junit.xml">>

RunnerInit ==
    /\ RunIdle
    /\ host = HostIdle
    /\ procs = NoProcs
    /\ junit = Absent
    /\ parsed = NoParse
    /\ poll = PollIdle
    /\ docker = DockerIdle
    /\ probe = ProbeIdle
    /\ runner \in [pc : {"new"}, suite : Suites,
                   parallel : {Null} \cup 0..MaxParallel,
                   artifacts_dir : {"None"} \cup ArtifactDirs,
                   args : {<<>>}, engine_rc : {Null}, returned : {Null}]

\* runner.py 11-19: __init__
RunnerConstruct ==
    /\ runner.pc = "new"
    /\ runner' = [runner EXCEPT
          !.pc = "constructed",
          !.artifacts_dir = IF @ = "None" THEN "artifacts" ELSE @]
    /\ UNCHANGED <<runVars, cmdVars, parsed, poll, docker, probe>>

\* runner.py 42: args = self.build_pytest_args(test_path)
RunnerBuildArgs ==
    /\ runner.pc = "constructed"
    /\ runner' = [runner EXCEPT
          !.pc = "built",
          !.args = BuildPytestArgs(runner.suite, runner.parallel,
                                   runner.artifacts_dir)]
    /\ UNCHANGED <<runVars, cmdVars, parsed, poll, docker, probe>>

\* runner.py 43-44: the engine runs and its return code is returned
RunnerExec ==
    /\ runner.pc = "built"
    /\ \E rc \in ExitCodes :
         runner' = [runner EXCEPT !.pc = "returned", !.engine_rc = rc,
                                  !.returned = rc]
    /\ UNCHANGED <<runVars, cmdVars, parsed, poll, docker, probe>>

RunnerNext ==
    \/ RunnerConstruct
    \/ RunnerBuildArgs
    \/ RunnerExec

RunnerSpec == RunnerInit /\ [][RunnerNext]_vars

\* The value given to a pytest option on the command line, "absent" if the
\* option is not given (the options follow `python -m pytest tests -v`).
OptionValue(args, flag) ==
    LET at == {i \in 6..Len(args) - 1 : args[i] = flag}
    IN  IF at = {} THEN "absent"
        ELSE args[(CHOOSE i \in at : \A j \in at : i <= j) + 1]

RunnerBuilt == runner.pc \in {"built", "returned"}

\* what both statements of C20 say about the other arguments and the code
C20_Rest ==
    /\ RunnerBuilt =>
          /\ OptionValue(runner.args, "-n") # "absent" =>
                /\ runner.parallel # Null
                /\ OptionValue(runner.args, "-n") = ToString(runner.parallel)
          /\ OptionValue(runner.args, "--junit-xml") =
                ReporterJunitPath(runner.artifacts_dir)
    /\ runner.pc = "returned" => runner.returned = runner.engine_rc

\* C20 as stated: the engine's exit code is returned unmodified; the marker
\* filter is the suite name iff the suite is not "all"; a worker count is
\* passed only when parallelism is requested; the result file is the
\* reports/junit.xml the Reporter of the same artifacts directory reads.
C20_AsStated ==
    /\ C20_Rest
    /\ RunnerBuilt =>
          /\ (OptionValue(runner.args, "-m") # "absent") <=> (runner.suite # "all")
          /\ runner.suite # "all" => OptionValue(runner.args, "-m") = runner.suite

\* C20 amended: as stated, with the marker filter applied iff the suite is
\* neither "all" nor empty.
C20_TestExecutor ==
    /\ C20_Rest
    /\ RunnerBuilt =>
          /\ (OptionValue(runner.args, "-m") # "absent") <=>
                (runner.suite # "all" /\ runner.suite # "")
          /\ OptionValue(runner.args, "-m") # "absent" =>
                OptionValue(runner.args, "-m") = runner.suite

C20_Witness ==
    /\ runner.pc = "returned"
    /\ runner.suite = "smoke"
    /\ runner.parallel = 2
    /\ runner.args = <<"python", "-m", "pytest", "tests", "-v", "-m", "smoke",
                       "-n", "2", "--junit-xml", "out/reports/junit.xml">>
    /\ runner.returned = 2

\* ------------------------------------------------ health-check probes
\* docker_runner.py 91 and 102: the timeout of one probe
ProbeTimeout == 5

\* docker_runner.py 92: the default of expected_status
DefaultStatus == 200

\* What the network does to one probe: the server answers with a status
\* (HTTP), the connection is established (TCP), or the transport fails
\* (timeout, refusal, DNS failure).
NetErrors == [kind : {"timeout", "refused", "dns"}, status : {Null}]
NetConnected == [kind |-> "connected", status |-> Null]
NetResponse(st) == [kind |-> "response", status |-> st]

\* CheckHttp comparing with 200 whatever the record expects
CheckHttp_IgnoresExpected(check, net) ==
    IF ~check.has_url THEN "False"
    ELSE IF net.kind # "response" THEN "False"
    ELSE IF net.status = DefaultStatus THEN "True" ELSE "False"

\* docker_runner.py 88-95: _check_http.  The KeyError of a record without
\* url and every error of requests.get are raised inside the try.
CheckHttp(check, net) ==
    IF ~check.has_url THEN "False"
    ELSE IF net.kind # "response" THEN "False"
    ELSE LET expected == IF check.expected_status = Null
                         THEN DefaultStatus ELSE check.expected_status
         IN  IF net.status = expected THEN "True" ELSE "False"

\* docker_runner.py 97-107: _check_tcp.  connect_ex returns 0 iff the
\* connection is established; a record without host or port and every
\* error raised by the socket calls are caught.
CheckTcp(check, net) ==
    IF ~check.has_host \/ ~check.has_port THEN "False"
    ELSE IF net.kind = "connected" THEN "True" ELSE "False"

\* ---------------------------------------------- wait_for_health()
\* timeout and interval arguments
Timeouts == {0, 3, 10}
Intervals == {2, 5}

\* The time from which the service behind a check answers; Null: never
ReadyAts == {Null, 0, 12}

\* A check of the list: the `type` of the record ("other": neither "http"
\* nor "tcp", or missing) and the service it points at.
PollChecks == [type : {"http", "tcp", "other"}, ready_at : ReadyAts]

CheckLists == UNION {[1..n -> PollChecks] : n \in 0..MaxChecks}

\* the record of a check of the list, as _check_http / _check_tcp get it
HttpRecord == [has_url |-> TRUE, expected_status |-> Null]
TcpRecord == [has_host |-> TRUE, has_port |-> TRUE]

\* What the network can do to a probe of this check that starts at t and
\* lasts d: a service that is up answers; one that is not up fails the
\* probe; one that comes up while the probe is in flight may do either.
ProbeOutcomes(check, t, d) ==
    LET good == IF check.type = "http" THEN NetResponse(200) ELSE NetConnected
        bad  == IF check.type = "http" THEN NetErrors \cup {NetResponse(503)}
                ELSE NetErrors
    IN  IF check.ready_at # Null /\ check.ready_at <= t THEN {good}
        ELSE IF check.ready_at # Null /\ check.ready_at <= t + d
        THEN {good} \cup bad
        ELSE bad

\* docker_runner.py 72-79: the probe of one check of the list
ProbeResult(check, net) ==
    IF check.type = "http" THEN CheckHttp(HttpRecord, net)
    ELSE CheckTcp(TcpRecord, net)

PollInit ==
    /\ RunIdle
    /\ host = HostIdle
    /\ procs = NoProcs
    /\ junit = Absent
    /\ parsed = NoParse
    /\ runner = RunnerIdle
    /\ docker = DockerIdle
    /\ probe = ProbeIdle
    /\ poll \in [pc : {"call"}, checks : CheckLists, timeout : Timeouts,
                 interval : Intervals, clock : {0}, start_time : {Null},
                 idx : {0}, all_passed : {TRUE}, result : {"None"},
                 rounds : {0}, failed_rounds : {0}, sleeps : {0},
                 round_log : {<<>>}]

\* docker_runner.py 66: start_time = time.time()
PollStart ==
    /\ poll.pc = "call"
    /\ poll' = [poll EXCEPT !.pc = "while", !.start_time = poll.clock]
    /\ UNCHANGED <<runVars, cmdVars, parsed, runner, docker, probe>>

\* docker_runner.py 68-69 and 86: the loop test
PollLoopTest ==
    /\ poll.pc = "while"
    /\ IF poll.clock - poll.start_time < poll.timeout
       THEN poll' = [poll EXCEPT !.pc = "for", !.all_passed = TRUE, !.idx = 1,
                                 !.rounds = @ + 1, !.round_log = <<>>]
       ELSE poll' = [poll EXCEPT !.pc = "done", !.result = "False"]
    /\ UNCHANGED <<runVars, cmdVars, parsed, runner, docker, probe>>

\* PollProbe without the break after a failing check
PollProbe_NoBreak ==
    /\ poll.pc = "for"
    /\ poll.idx <= Len(poll.checks)
    /\ LET check == poll.checks[poll.idx] IN
       IF check.type \in {"http", "tcp"}
       THEN \E d \in 0..ProbeTimeout :
            \E net \in ProbeOutcomes(check, poll.clock, d) :
              LET res == ProbeResult(check, net)
                  log == Append(poll.round_log, [idx |-> poll.idx, result |-> res])
              IN  IF res = "True"
                  THEN poll' = [poll EXCEPT !.clock = @ + d, !.round_log = log,
                                            !.idx = @ + 1]
                  ELSE poll' = [poll EXCEPT !.clock = @ + d, !.round_log = log,
                                            !.all_passed = FALSE,
                                            !.failed_rounds =
                                                IF poll.all_passed THEN @ + 1 ELSE @,
                                            !.idx = @ + 1]
       ELSE poll' = [poll EXCEPT !.idx = @ + 1]
    /\ UNCHANGED <<runVars, cmdVars, parsed, runner, docker, probe>>

\* docker_runner.py 71-79: one iteration of the for loop
PollProbe ==
    /\ poll.pc = "for"
    /\ poll.idx <= Len(poll.checks)
    /\ LET check == poll.checks[poll.idx] IN
       IF check.type \in {"http", "tcp"}
       THEN \E d \in 0..ProbeTimeout :
            \E net \in ProbeOutcomes(check, poll.clock, d) :
              LET res == ProbeResult(check, net)
                  log == Append(poll.round_log, [idx |-> poll.idx, result |-> res])
              IN  IF res = "True"
                  THEN poll' = [poll EXCEPT !.clock = @ + d, !.round_log = log,
                                            !.idx = @ + 1]
                  ELSE IF res = "False"
                  THEN poll' = [poll EXCEPT !.clock = @ + d, !.round_log = log,
                                            !.all_passed = FALSE,
                                            !.failed_rounds = @ + 1,
                                            !.pc = "round_end"]
                  ELSE poll' = [poll EXCEPT !.clock = @ + d, !.round_log = log,
                                            !.pc = "raised"]
       ELSE poll' = [poll EXCEPT !.idx = @ + 1]
    /\ UNCHANGED <<runVars, cmdVars, parsed, runner, docker, probe>>

\* docker_runner.py 71: the list is exhausted
PollForEnd ==
    /\ poll.pc = "for"
    /\ poll.idx > Len(poll.checks)
    /\ poll' = [poll EXCEPT !.pc = "round_end"]
    /\ UNCHANGED <<runVars, cmdVars, parsed, runner, docker, probe>>

\* PollRoundEnd sleeping before it looks at all_passed
PollRoundEnd_SleepFirst ==
    /\ poll.pc = "round_end"
    /\ IF poll.all_passed
       THEN poll' = [poll EXCEPT !.pc = "done", !.result = "True",
                                 !.clock = @ + poll.interval, !.sleeps = @ + 1]
       ELSE poll' = [poll EXCEPT !.pc = "while", !.clock = @ + poll.interval,
                                 !.sleeps = @ + 1]
    /\ UNCHANGED <<runVars, cmdVars, parsed, runner, docker, probe>>

\* docker_runner.py 81-84: return True, or sleep and loop
PollRoundEnd ==
    /\ poll.pc = "round_end"
    /\ IF poll.all_passed
       THEN poll' = [poll EXCEPT !.pc = "done", !.result = "True"]
       ELSE poll' = [poll EXCEPT !.pc = "while", !.clock = @ + poll.interval,
                                 !.sleeps = @ + 1]
    /\ UNCHANGED <<runVars, cmdVars, parsed, runner, docker, probe>>

PollNext ==
    \/ PollStart
    \/ PollLoopTest
    \/ PollProbe
    \/ PollForEnd
    \/ PollRoundEnd

PollSpec == PollInit /\ [][PollNext]_vars

PollDone == poll.pc = "done"
Elapsed == poll.clock - poll.start_time

\* C12: when wait_for_health returns False, the time elapsed since the call
\* is at least timeout and less than timeout + interval.
C12_FalseWithinInterval ==
    (PollDone /\ poll.result = "False") =>
        /\ Elapsed >= poll.timeout
        /\ Elapsed < poll.timeout + poll.interval

\* every probe made so far passed: each check passed the first time it was
\* probed
NoFailedProbe == poll.failed_rounds = 0

\* C13 as stated: for every check list, timeout and interval, if every check
\* passes the first time it is probed, wait_for_health returns True and
\* has not slept.
C13_AsStated ==
    (PollDone /\ NoFailedProbe) =>
        /\ poll.result = "True"
        /\ poll.sleeps = 0

\* C13 amended: the same for every positive timeout.
C13_FirstRoundPasses ==
    (PollDone /\ NoFailedProbe /\ poll.timeout > 0) =>
        /\ poll.result = "True"
        /\ poll.sleeps = 0

C13_Witness ==
    /\ PollDone
    /\ NoFailedProbe
    /\ poll.timeout = 3
    /\ Len(poll.round_log) = 2
    /\ poll.result = "True"
    /\ poll.sleeps = 0

\* the checks of the list that wait_for_health probes
Probed == {i \in DOMAIN poll.checks : poll.checks[i].type \in {"http", "tcp"}}

\* C14: timeout is a hard end-to-end deadline: wait_for_health never returns
\* True with a check whose service first answers after start + timeout; in
\* particular it returns False with timeout 10, interval 5 and one TCP check
\* that passes from t = 12 on.
C14_HardDeadline ==
    /\ (PollDone /\ poll.result = "True") =>
          \A i \in Probed :
              /\ poll.checks[i].ready_at # Null
              /\ poll.checks[i].ready_at <= poll.start_time + poll.timeout
    /\ (/\ PollDone
        /\ poll.timeout = 10
        /\ poll.interval = 5
        /\ poll.checks = <<[type |-> "tcp", ready_at |-> 12]>>)
          => poll.result = "False"

\* C15: within a round the checks are probed in list order, no check is
\* probed after the first failing one, and every failed round has been
\* followed by exactly one sleep when the loop test is evaluated again.
C15_RoundDiscipline ==
    /\ \A i, j \in DOMAIN poll.round_log :
          i < j => poll.round_log[i].idx < poll.round_log[j].idx
    /\ \A i \in DOMAIN poll.round_log :
          /\ poll.round_log[i].idx \in Probed
          /\ \A k \in Probed :
                k < poll.round_log[i].idx =>
                    \E j \in 1..(i - 1) : poll.round_log[j].idx = k
          /\ i < Len(poll.round_log) => poll.round_log[i].result = "True"
    /\ poll.pc \in {"while", "done"} => poll.sleeps = poll.failed_rounds
    /\ poll.sleeps <= poll.failed_rounds
    /\ poll.failed_rounds <= poll.sleeps + 1

\* the second round failed at the second check of the list
C15_Witness ==
    /\ poll.pc = "while"
    /\ poll.rounds = 2
    /\ poll.sleeps = 2
    /\ poll.round_log = <<[idx |-> 1, result |-> "True"],
                          [idx |-> 2, result |-> "False"]>>

\* ------------------------------------------------ one probe on its own
\* status codes a server answers with
Statuses == {200, 204, 404, 503}

\* A check record handed to _check_http: with or without url, with or
\* without expected_status; and what the network does to the request.
HttpProbes ==
    [pc : {"call"}, type : {"http"}, has_url : BOOLEAN,
     expected_status : {Null, 200, 204}, has_host : {FALSE}, has_port : {FALSE},
     net : NetErrors \cup {NetResponse(st) : st \in Statuses},
     result : {"None"}]

\* A check record handed to _check_tcp: with or without host and port; and
\* what the network does to the connection attempt.
TcpProbes ==
    [pc : {"call"}, type : {"tcp"}, has_url : {FALSE},
     expected_status : {Null}, has_host : BOOLEAN, has_port : BOOLEAN,
     net : NetErrors \cup {NetConnected},
     result : {"None"}]

ProbeInit ==
    /\ RunIdle
    /\ host = HostIdle
    /\ procs = NoProcs
    /\ junit = Absent
    /\ parsed = NoParse
    /\ runner = RunnerIdle
    /\ poll = PollIdle
    /\ docker = DockerIdle
    /\ probe \in HttpProbes \cup TcpProbes

\* docker_runner.py 88-95
ProbeHttp ==
    /\ probe.pc = "call"
    /\ probe.type = "http"
    /\ probe' = [probe EXCEPT !.pc = "returned",
                              !.result = CheckHttp(probe, probe.net)]
    /\ UNCHANGED <<runVars, cmdVars, parsed, runner, poll, docker>>

\* docker_runner.py 97-107
ProbeTcp ==
    /\ probe.pc = "call"
    /\ probe.type = "tcp"
    /\ probe' = [probe EXCEPT !.pc = "returned",
                              !.result = CheckTcp(probe, probe.net)]
    /\ UNCHANGED <<runVars, cmdVars, parsed, runner, poll, docker>>

ProbeNext ==
    \/ ProbeHttp
    \/ ProbeTcp

ProbeSpec == ProbeInit /\ [][ProbeNext]_vars

\* C16: a probe never raises; an HTTP probe returns True iff a response was
\* received whose status equals expected_status (200 when the record has
\* none), a TCP probe iff the connection was established; a transport
\* error or a record without its target yields False.
C16_ProbeResult ==
    probe.pc = "returned" =>
        /\ probe.result \in {"True", "False"}
        /\ probe.type = "http" =>
              ((probe.result = "True") <=>
                  /\ probe.has_url
                  /\ probe.net.kind = "response"
                  /\ probe.net.status =
                        (IF probe.expected_status = Null THEN 200
                         ELSE probe.expected_status))
        /\ probe.type = "tcp" =>
              ((probe.result = "True") <=>
                  /\ probe.has_host
                  /\ probe.has_port
                  /\ probe.net.kind = "connected")

\* a check expecting 204 passes on a 204 response
C16_Witness ==
    /\ probe.pc = "returned"
    /\ probe.type = "http"
    /\ probe.expected_status = 204
    /\ probe.net = NetResponse(204)
    /\ probe.result = "True"

\* --------------------------- DockerRunner.collect_artifacts() on its own
\* run ids of a `run` and of the `down` command
RunIds == {"4f2a", "cleanup"}

\* The files collect_artifacts writes below artifacts_dir
CollectFiles == {"logs/all.log", "compose/docker-compose.yml",
                 "env/container_states.txt", "env/metadata.json"}

\* A call of collect_artifacts: the runner's run_id, the return code of
\* `docker compose logs` and whether `docker version` printed JSON.  No
\* directory, file or metadata exists yet.
DockerInit ==
    /\ RunIdle
    /\ host = HostIdle
    /\ procs = NoProcs
    /\ junit = Absent
    /\ parsed = NoParse
    /\ runner = RunnerIdle
    /\ poll = PollIdle
    /\ probe = ProbeIdle
    /\ docker \in [pc : {"mkdirs"}, run_id : RunIds, logs_rc : ExitCodes,
                   version_is_json : BOOLEAN, dirs : {FALSE},
                   files : {{}}, docker_version : {"None"},
                   raised_at : {"None"}]

dockerFrame == <<runVars, cmdVars, parsed, runner, poll, probe>>

\* An OSError raised by the statement at `step` leaves collect_artifacts:
\* no statement of lines 112-150 but json.loads is inside a try.
DockerRaiseAt(step) ==
    [docker EXCEPT !.pc = "raised", !.raised_at = step]

DockerRaise(step) ==
    docker' = DockerRaiseAt(step)

\* docker_runner.py 112-115: the four mkdir calls
DockerMkdirs ==
    /\ docker.pc = "mkdirs"
    /\ \/ docker' = [docker EXCEPT !.pc = "logs", !.dirs = TRUE]
       \/ DockerRaise("mkdirs")
    /\ UNCHANGED dockerFrame

\* docker_runner.py 118-119 and 51-57: `docker compose logs`, whose return
\* code is never read, then the write of logs/all.log
DockerLogs ==
    /\ docker.pc = "logs"
    /\ \/ docker' = [docker EXCEPT !.pc = "copy",
                                   !.files = @ \cup {"logs/all.log"}]
       \/ DockerRaise("logs")
    /\ UNCHANGED dockerFrame

\* docker_runner.py 122: shutil.copy of the compose file
DockerCopyCompose ==
    /\ docker.pc = "copy"
    /\ \/ docker' = [docker EXCEPT !.pc = "ps",
                         !.files = @ \cup {"compose/docker-compose.yml"}]
       \/ DockerRaise("copy")
    /\ UNCHANGED dockerFrame

\* docker_runner.py 125-126 and 46-49: `docker compose ps -a`, then the
\* write of env/container_states.txt
DockerPs ==
    /\ docker.pc = "ps"
    /\ \/ docker' = [docker EXCEPT !.pc = "versions",
                         !.files = @ \cup {"env/container_states.txt"}]
       \/ DockerRaise("ps")
    /\ UNCHANGED dockerFrame

\* docker_runner.py 129-136: `docker version` and `docker compose version`
DockerVersions ==
    /\ docker.pc = "versions"
    /\ \/ docker' = [docker EXCEPT !.pc = "metadata"]
       \/ DockerRaise("versions")
    /\ UNCHANGED dockerFrame

\* docker_runner.py 138-150: the metadata record; json.loads of the
\* version output falls back to the stripped text; then the write of
\* env/metadata.json
DockerMetadata ==
    /\ docker.pc = "metadata"
    /\ LET version == IF docker.version_is_json THEN "json" ELSE "text"
       IN  \/ docker' = [docker EXCEPT !.pc = "returned",
                             !.docker_version = version,
                             !.files = @ \cup {"env/metadata.json"}]
           \/ docker' = [DockerRaiseAt("metadata") EXCEPT
                             !.docker_version = version]
    /\ UNCHANGED dockerFrame

DockerNext ==
    \/ DockerMkdirs
    \/ DockerLogs
    \/ DockerCopyCompose
    \/ DockerPs
    \/ DockerVersions
    \/ DockerMetadata

DockerSpec == DockerInit /\ [][DockerNext]_vars

\* C11: an artifact-collection failure is swallowed.  A backend error
\* return or an I/O error while gathering logs, container states or
\* metadata never leaves collect_artifacts as an exception, so that the
\* caller (cli.py 181-198, which has no handler around the collection)
\* keeps its exit code, writes the summary and tears down.
C11_CollectionSwallowed ==
    docker.pc # "raised"

\* ---------------------------------------------- the failure list
\* the cases of the result file that carry a <failure> or an <error>
FailingCases ==
    {i \in DOMAIN junit.cases :
        junit.cases[i].failure # Null \/ junit.cases[i].error # Null}

\* the k-th failing case of the file, in document order
KthFailing(k) ==
    CHOOSE i \in FailingCases :
        Cardinality({j \in FailingCases : j <= i}) = k

\* C27: the failure list has exactly one entry per case with a failure or an
\* error, in document order; the name of an entry is the classname and the
\* name of its case joined by a dot; its reason is the first 200 characters
\* of the message of the failure (of the error when the case has no
\* failure), and is never longer than 200 characters.
C27_FailureList ==
    parsed # NoParse =>
        /\ Len(parsed.failures) = Cardinality(FailingCases)
        /\ \A k \in DOMAIN parsed.failures :
              LET case  == junit.cases[KthFailing(k)]
                  entry == parsed.failures[k]
              IN  /\ entry.name = case.classname \o "." \o case.name
                  /\ entry.reason.of =
                        (IF case.failure # Null THEN "failure" ELSE "error")
                  /\ entry.reason.len =
                        (IF case.failure # Null
                         THEN Min(case.failure, ReasonLimit)
                         ELSE Min(case.error, ReasonLimit))
                  /\ entry.reason.len <= ReasonLimit

\* two failing cases: the first with both a long failure message and an
\* error, the second with an error only
C27_Witness ==
    /\ parsed # NoParse
    /\ Len(junit.cases) = 2
    /\ junit.cases[1].failure = ReasonLimit + 1
    /\ junit.cases[1].error = 0
    /\ junit.cases[2].failure = Null
    /\ junit.cases[2].error = ReasonLimit + 1
    /\ junit.cases[1].classname # junit.cases[2].classname
    /\ Len(parsed.failures) = 2
    /\ parsed.failures[1].reason = [of |-> "failure", len |-> ReasonLimit]
    /\ parsed.failures[2].reason = [of |-> "error", len |-> ReasonLimit]

\* ---------------------------------------------- the phase timestamps
\* the orderings of the timestamps of a run
TimestampsOrdered ==
    /\ calls # <<>> => start_time # Null
    /\ env_ready_time # Null =>
          /\ start_time # Null
          /\ env_ready_time >= start_time
    /\ test_end_time # Null =>
          /\ env_ready_time # Null
          /\ test_end_time >= env_ready_time

\* a step assigns a timestamp only if it was not set
TimestampsAssignedOnce ==
    /\ start_time' # start_time => start_time = Null
    /\ env_ready_time' # env_ready_time => env_ready_time = Null
    /\ test_end_time' # test_end_time => test_end_time = Null

\* C28: in every state of a run start_time is set before `up` (or any other
\* call) is made, env_ready_time is not before start_time, test_end_time is
\* set only with env_ready_time and is not before it; and each of the three
\* timestamps is assigned at most once.
C28_Timestamps ==
    /\ []TimestampsOrdered
    /\ [][TimestampsAssignedOnce]_vars

\* a finished run whose three timestamps differ
C28_Witness ==
    /\ pc = "done"
    /\ start_time # Null
    /\ env_ready_time > start_time
    /\ test_end_time > env_ready_time

\* ---------------------------------------------- records of any type
\* C25: wait_for_health returns True only at the end of a round in which
\* every check record of the list, whatever its type, was probed and passed.
C25_TrueOnlyIfAllProbed ==
    (PollDone /\ poll.result = "True") =>
        \A i \in DOMAIN poll.checks :
            \E k \in DOMAIN poll.round_log :
                /\ poll.round_log[k].idx = i
                /\ poll.round_log[k].result = "True"

\* ------------------------------------- autoe2e commands on one host
\* The command processes that run side by side
Procs == {"p1", "p2"}

\* cli.py 15-17: values generate_run_id() can return
Tokens == {"4f2a", "9c1e"}

\* cli.py 94: the run_id the `down` command passes
CleanupId == "cleanup"

\* --artifacts-dir: left out ("None") or given
SuppliedDirs == {"None", "out"}

\* cli.py 125: the artifacts directory of a run
ArtifactsPath(supplied, run_id) ==
    IF supplied # "None" THEN supplied ELSE "artifacts/" \o run_id

Dirs == {ArtifactsPath(d, t) : d \in SuppliedDirs, t \in Tokens}

\* reports/junit.xml and reports/summary.json of an artifacts directory,
\* reduced to who wrote them and the verdict they carry
NoJunit == [written |-> FALSE, passed |-> FALSE]
NoSummaryFile == [written |-> FALSE, run_id |-> "None", exit_code |-> Null,
                  passed |-> FALSE]
NoDir == [exists |-> FALSE, junit |-> NoJunit, summary |-> NoSummaryFile]

\* A command before its first statement.  up_ok, tests_ok: whether the
\* environment of this command starts and whether its tests pass against
\* it.
NewProc(cmd, dir, keep, collect, up_ok, tests_ok) ==
    [cmd |-> cmd, pc |-> "start", supplied_dir |-> dir, keep_on_fail |-> keep,
     collect_mode |-> collect, up_ok |-> up_ok, tests_ok |-> tests_ok,
     run_id |-> "None", dir |-> "None", up_exit |-> Null, test_exit |-> Null,
     final_exit_code |-> Null, should_teardown |-> TRUE, calls |-> <<>>,
     left_running |-> {}, process_exit |-> Null]

RunProcs ==
    {NewProc("run", d, k, c, u, t) :
        d \in SuppliedDirs, k \in BOOLEAN, c \in {"on_fail", "always"},
        u \in BOOLEAN, t \in BOOLEAN}

UpProcs == {NewProc("up", "None", FALSE, "on_fail", u, FALSE) : u \in BOOLEAN}

OtherProcs ==
    {NewProc(c, "None", FALSE, "on_fail", FALSE, FALSE) : c \in {"down", "status"}}

\* Two commands were started with the same spec file on a host with no
\* environment and no artifacts.  backend_ok: the container runtime
\* answers; serving: the project that answers at the base URL the tests
\* address.
HostInit ==
    /\ RunIdle
    /\ junit = Absent
    /\ parsed = NoParse
    /\ runner = RunnerIdle
    /\ poll = PollIdle
    /\ docker = DockerIdle
    /\ probe = ProbeIdle
    /\ host \in [backend_ok : BOOLEAN, projects : {{}}, serving : {"None"},
                 files : {[d \in Dirs |-> NoDir]}]
    /\ procs \in [Procs -> RunProcs \cup UpProcs \cup OtherProcs]

hostFrame == <<runVars, parsed, runner, poll, docker, probe>>

\* The environment controller, namespaced by run_id (docker_runner.py 19:
\* project_name = autoe2e-<run_id>).  Outcomes of `up`: return code,
\* projects and the project serving the base URL afterwards.  A failed `up`
\* may leave the project behind; while another project holds the address
\* of the base URL, `up` fails or starts without that address.
HostUp(h, run_id, up_ok) ==
    LET with == h.projects \cup {run_id}
        Out(rc, projects, serving) ==
            [rc |-> rc, projects |-> projects, serving |-> serving]
    IN  IF ~(h.backend_ok /\ up_ok)
        THEN {Out(1, h.projects, h.serving), Out(1, with, h.serving)}
        ELSE IF h.serving \in {"None", run_id}
        THEN {Out(0, with, run_id)}
        ELSE {Out(1, h.projects, h.serving), Out(1, with, h.serving),
              Out(0, with, h.serving)}

\* HostDown failing when the project does not exist
HostDown_ErrorWhenAbsent(h, run_id) ==
    IF h.backend_ok /\ run_id \in h.projects
    THEN [rc |-> 0, projects |-> h.projects \ {run_id},
          serving |-> IF h.serving = run_id THEN "None" ELSE h.serving]
    ELSE [rc |-> 1, projects |-> h.projects, serving |-> h.serving]

\* `down` of the project of run_id: docker compose down succeeds whether
\* or not the project exists.
HostDown(h, run_id) ==
    IF h.backend_ok
    THEN [rc |-> 0, projects |-> h.projects \ {run_id},
          serving |-> IF h.serving = run_id THEN "None" ELSE h.serving]
    ELSE [rc |-> 1, projects |-> h.projects, serving |-> h.serving]

\* `collect_artifacts` for the project of run_id: the return code
HostCollect(h, run_id) == IF h.backend_ok THEN 0 ELSE 1

\* `status`: the return code
HostStatus(h) == IF h.backend_ok THEN 0 ELSE 1

Call(op, run_id, rc) == [op |-> op, run_id |-> run_id, rc |-> rc]

\* cli.py 33 and 123: run_id = generate_run_id()
CmdGenerateRunId(p) ==
    /\ procs[p].pc = "start"
    /\ procs[p].cmd \in {"run", "up"}
    /\ \E t \in Tokens :
         procs' = [procs EXCEPT ![p].run_id = t,
                                ![p].pc = IF procs[p].cmd = "run"
                                          THEN "prepare" ELSE "up"]
    /\ UNCHANGED <<host, hostFrame>>

\* cli.py 125-136: the artifacts directory, the Reporter, the flags
CmdRunPrepare(p) ==
    /\ procs[p].pc = "prepare"
    /\ LET dir == ArtifactsPath(procs[p].supplied_dir, procs[p].run_id) IN
         /\ host' = [host EXCEPT !.files[dir].exists = TRUE]
         /\ procs' = [procs EXCEPT
                ![p].dir = dir,
                ![p].calls = Append(@, Call("mkdir", procs[p].run_id, 0)),
                ![p].final_exit_code = 0,
                ![p].should_teardown = TRUE,
                ![p].pc = "run_up"]
    /\ UNCHANGED hostFrame

\* cli.py 142-148: up_exit = ansible.up(..., run_id=run_id, ...)
CmdRunUp(p) ==
    /\ procs[p].pc = "run_up"
    /\ \E out \in HostUp(host, procs[p].run_id, procs[p].up_ok) :
         /\ host' = [host EXCEPT !.projects = out.projects,
                                  !.serving = out.serving]
         /\ procs' = [procs EXCEPT
                ![p].up_exit = out.rc,
                ![p].calls = Append(@, Call("up", procs[p].run_id, out.rc)),
                ![p].pc = IF out.rc # 0 THEN "ef_collect" ELSE "tests"]
    /\ UNCHANGED hostFrame

\* cli.py 150-158: the environment failed to start; collect artifacts
CmdRunEnvFailedCollect(p) ==
    /\ procs[p].pc = "ef_collect"
    /\ LET rc == HostCollect(host, procs[p].run_id) IN
         procs' = [procs EXCEPT
            ![p].final_exit_code = 2,
            ![p].calls = Append(@, Call("collect_artifacts", procs[p].run_id, rc)),
            ![p].pc = "ef_summary"]
    /\ UNCHANGED <<host, hostFrame>>

\* reporter.py 64-98 over the artifacts directory of the Reporter
SummaryFile(h, proc) ==
    [written |-> TRUE, run_id |-> proc.run_id,
     exit_code |-> proc.final_exit_code,
     passed |-> h.files[proc.dir].junit.written
                /\ h.files[proc.dir].junit.passed]

\* cli.py 159: reporter.write_summary(final_exit_code)
CmdRunEnvFailedSummary(p) ==
    /\ procs[p].pc = "ef_summary"
    /\ host' = [host EXCEPT
            !.files[procs[p].dir].summary = SummaryFile(host, procs[p])]
    /\ procs' = [procs EXCEPT ![p].pc = "ef_down"]
    /\ UNCHANGED hostFrame

\* cli.py 160-162: teardown unless --keep-on-fail, then sys.exit
CmdRunEnvFailedDown(p) ==
    /\ procs[p].pc = "ef_down"
    /\ IF ~procs[p].keep_on_fail
       THEN LET out == HostDown(host, procs[p].run_id) IN
            /\ host' = [host EXCEPT !.projects = out.projects,
                                  !.serving = out.serving]
            /\ procs' = [procs EXCEPT
                   ![p].calls = Append(@, Call("down", procs[p].run_id, out.rc)),
                   ![p].process_exit = procs[p].final_exit_code,
                   ![p].pc = "done"]
       ELSE /\ host' = host
            /\ procs' = [procs EXCEPT
                   ![p].process_exit = procs[p].final_exit_code,
                   ![p].pc = "done"]
    /\ UNCHANGED hostFrame

\* cli.py 164-178 and runner.py 40-44: pytest is started with nothing that
\* names the run; the tests address the base URL (tests/conftest.py 12) and
\* pass only if an environment answers there.  junit.xml goes to the
\* artifacts directory of the run.
CmdRunTests(p) ==
    /\ procs[p].pc = "tests"
    /\ LET passed == procs[p].tests_ok /\ host.serving # "None"
           rc     == IF passed THEN 0 ELSE 1
       IN  /\ host' = [host EXCEPT !.files[procs[p].dir].junit =
                          [written |-> TRUE, passed |-> passed]]
           /\ procs' = [procs EXCEPT
                  ![p].test_exit = rc,
                  ![p].final_exit_code = IF rc # 0 THEN 1 ELSE @,
                  ![p].should_teardown =
                      IF rc # 0 /\ procs[p].keep_on_fail THEN FALSE ELSE @,
                  ![p].pc = "collect"]
    /\ UNCHANGED hostFrame

\* cli.py 181-189: collect artifacts on failure or when always collecting
CmdRunCollect(p) ==
    /\ procs[p].pc = "collect"
    /\ IF procs[p].final_exit_code # 0 \/ procs[p].collect_mode = "always"
       THEN LET rc == HostCollect(host, procs[p].run_id) IN
              procs' = [procs EXCEPT
                 ![p].calls = Append(@, Call("collect_artifacts",
                                             procs[p].run_id, rc)),
                 ![p].pc = "summary"]
       ELSE procs' = [procs EXCEPT ![p].pc = "summary"]
    /\ UNCHANGED <<host, hostFrame>>

\* cli.py 192: reporter.write_summary(final_exit_code)
CmdRunSummary(p) ==
    /\ procs[p].pc = "summary"
    /\ host' = [host EXCEPT
            !.files[procs[p].dir].summary = SummaryFile(host, procs[p])]
    /\ procs' = [procs EXCEPT ![p].pc = "teardown"]
    /\ UNCHANGED hostFrame

\* CmdRunTeardown passing the run_id of the `down` command
CmdRunTeardown_CleanupId(p) ==
    /\ procs[p].pc = "teardown"
    /\ IF procs[p].should_teardown
       THEN LET out == HostDown(host, CleanupId) IN
            /\ host' = [host EXCEPT !.projects = out.projects,
                                  !.serving = out.serving]
            /\ procs' = [procs EXCEPT
                   ![p].calls = Append(@, Call("down", CleanupId, out.rc)),
                   ![p].process_exit = procs[p].final_exit_code,
                   ![p].pc = "done"]
       ELSE /\ host' = host
            /\ procs' = [procs EXCEPT
                   ![p].process_exit = procs[p].final_exit_code,
                   ![p].pc = "done"]
    /\ UNCHANGED hostFrame

\* cli.py 195-210: teardown unless suppressed, then sys.exit
CmdRunTeardown(p) ==
    /\ procs[p].pc = "teardown"
    /\ IF procs[p].should_teardown
       THEN LET out == HostDown(host, procs[p].run_id) IN
            /\ host' = [host EXCEPT !.projects = out.projects,
                                  !.serving = out.serving]
            /\ procs' = [procs EXCEPT
                   ![p].calls = Append(@, Call("down", procs[p].run_id, out.rc)),
                   ![p].process_exit = procs[p].final_exit_code,
                   ![p].pc = "done"]
       ELSE /\ host' = host
            /\ procs' = [procs EXCEPT
                   ![p].process_exit = procs[p].final_exit_code,
                   ![p].pc = "done"]
    /\ UNCHANGED hostFrame

\* cli.py 40-53: the `up` command starts the environment and exits
CmdUp(p) ==
    /\ procs[p].pc = "up"
    /\ \E out \in HostUp(host, procs[p].run_id, procs[p].up_ok) :
         /\ host' = [host EXCEPT !.projects = out.projects,
                                  !.serving = out.serving]
         /\ procs' = [procs EXCEPT
                ![p].up_exit = out.rc,
                ![p].calls = Append(@, Call("up", procs[p].run_id, out.rc)),
                ![p].process_exit = out.rc,
                ![p].pc = "done"]
    /\ UNCHANGED hostFrame

\* the run_ids of the environments that commands which are over have left
\* running
LeftRunning ==
    {procs[q].run_id : q \in {r \in Procs :
        /\ procs[r].pc \in {"done", "killed"}
        /\ procs[r].cmd \in {"run", "up"}
        /\ procs[r].run_id \in host.projects}}

\* cli.py 85-103: the `down` command; left_running remembers what it found
CmdDown(p) ==
    /\ procs[p].pc = "start"
    /\ procs[p].cmd = "down"
    /\ LET out == HostDown(host, CleanupId) IN
         /\ host' = [host EXCEPT !.projects = out.projects,
                                  !.serving = out.serving]
         /\ procs' = [procs EXCEPT
                ![p].calls = Append(@, Call("down", CleanupId, out.rc)),
                ![p].left_running = LeftRunning,
                ![p].process_exit = out.rc,
                ![p].pc = "done"]
    /\ UNCHANGED hostFrame

\* cli.py 215-221: the `status` command
CmdStatus(p) ==
    /\ procs[p].pc = "start"
    /\ procs[p].cmd = "status"
    /\ LET rc == HostStatus(host) IN
         procs' = [procs EXCEPT
            ![p].calls = Append(@, Call("status", "None", rc)),
            ![p].process_exit = rc,
            ![p].pc = "done"]
    /\ UNCHANGED <<host, hostFrame>>

\* a `run` or an `up` is terminated from outside
CmdKill(p) ==
    /\ procs[p].cmd \in {"run", "up"}
    /\ procs[p].pc \notin {"done", "killed"}
    /\ procs' = [procs EXCEPT ![p].pc = "killed"]
    /\ UNCHANGED <<host, hostFrame>>

HostNext ==
    \E p \in Procs :
        \/ CmdGenerateRunId(p)
        \/ CmdRunPrepare(p)
        \/ CmdRunUp(p)
        \/ CmdRunEnvFailedCollect(p)
        \/ CmdRunEnvFailedSummary(p)
        \/ CmdRunEnvFailedDown(p)
        \/ CmdRunTests(p)
        \/ CmdRunCollect(p)
        \/ CmdRunSummary(p)
        \/ CmdRunTeardown(p)
        \/ CmdUp(p)
        \/ CmdDown(p)
        \/ CmdStatus(p)
        \/ CmdKill(p)

HostSpec == HostInit /\ [][HostNext]_vars

\* ---------------------------------------------- properties of commands
RunCmds == {p \in Procs : procs[p].cmd = "run"}

DownCalls(p) == {k \in DOMAIN procs[p].calls : procs[p].calls[k].op = "down"}

\* the step appends a call to the log of p
CallsMade(p) ==
    IF Len(procs'[p].calls) > Len(procs[p].calls)
    THEN {procs'[p].calls[Len(procs'[p].calls)]} ELSE {}

\* every `down` issued while the container runtime answers returned success
DownSucceeds ==
    \A p \in Procs : \A k \in DownCalls(p) :
        host.backend_ok => procs[p].calls[k].rc = 0

\* a `down` that returned success leaves the environment it names absent
DownLeavesAbsent ==
    \A p \in Procs : \A c \in CallsMade(p) :
        (c.op = "down" /\ c.rc = 0) => c.run_id \notin host'.projects

RunIdCarried ==
    \A p \in RunCmds :
        /\ procs[p].calls # <<>> => procs[p].run_id \in Tokens
        /\ \A k \in DOMAIN procs[p].calls :
              procs[p].calls[k].run_id = procs[p].run_id

\* the run_id is assigned once, and the summary a run writes carries it
RunIdKept ==
    \A p \in RunCmds :
        /\ procs[p].run_id # "None" => procs'[p].run_id = procs[p].run_id
        /\ (procs[p].pc \in {"summary", "ef_summary"} /\ procs'[p].pc # procs[p].pc
            /\ procs'[p].pc # "killed")
              => /\ host'.files[procs[p].dir].summary.written
                 /\ host'.files[procs[p].dir].summary.run_id = procs[p].run_id

\* C22: within a run the run_id is generated once, before any side effect,
\* and never changes; the creation of the artifacts directory, every `up`,
\* `collect_artifacts` and `down` of the run and the summary it writes carry
\* that run_id.
C22_RunIdImmutable ==
    /\ []RunIdCarried
    /\ [][RunIdKept]_vars

\* a run that failed its tests and is over
C22_Witness ==
    \E p \in RunCmds :
        /\ procs[p].pc = "done"
        /\ procs[p].run_id = "9c1e"
        /\ Len(procs[p].calls) = 4
        /\ procs[p].calls[2].op = "up"
        /\ procs[p].calls[3].op = "collect_artifacts"
        /\ procs[p].calls[4] = Call("down", "9c1e", 0)
        /\ host.files[procs[p].dir].summary.run_id = "9c1e"

\* two runs with distinct run_ids and distinct artifacts directories
DistinctRuns ==
    /\ RunCmds = Procs
    /\ \A p, q \in Procs :
          p # q =>
            /\ (procs[p].run_id # "None" /\ procs[q].run_id # "None")
                  => procs[p].run_id # procs[q].run_id
            /\ (procs[p].dir # "None" /\ procs[q].dir # "None")
                  => procs[p].dir # procs[q].dir

\* the exit code of a run on its own
ExitAlone(p) ==
    IF ~(host.backend_ok /\ procs[p].up_ok) THEN 2
    ELSE IF procs[p].tests_ok THEN 0 ELSE 1

\* the summary of a run on its own
SummaryAlone(p) ==
    [written |-> TRUE, run_id |-> procs[p].run_id, exit_code |-> ExitAlone(p),
     passed |-> host.backend_ok /\ procs[p].up_ok /\ procs[p].tests_ok]

\* a finished run has the exit code and the summary it has on its own
SameAsAlone ==
    DistinctRuns =>
        \A p \in Procs :
            procs[p].pc = "done" =>
                /\ procs[p].process_exit = ExitAlone(p)
                /\ host.files[procs[p].dir].summary = SummaryAlone(p)

\* the calls of a run name its own run_id, and an environment is removed
\* only by the run it belongs to
OwnNamespaceOnly ==
    DistinctRuns =>
        /\ \A p \in Procs : \A c \in CallsMade(p) : c.run_id = procs[p].run_id
        /\ \A r \in host.projects \ host'.projects :
              \E p \in Procs : procs[p].run_id = r /\ procs'[p] # procs[p]

\* C23: two runs with distinct run_ids and artifacts directories do not
\* interfere under any interleaving: each call of a run targets the
\* namespace of its own run_id, no teardown removes the environment of the
\* other run, and exit code and summary of each run are as on its own.
C23_NoInterference ==
    /\ []SameAsAlone
    /\ [][OwnNamespaceOnly]_vars

\* the capability set of the environment controller
Capabilities == {"up", "down", "status", "logs", "collect_artifacts"}

\* ansible_runner.py 67-122: the operations of AnsibleRunner
AnsibleRunnerOps == {"up", "down", "collect_artifacts", "status"}

\* docker_runner.py 33-150: the operations of DockerRunner
DockerRunnerOps == {"up", "down", "ps", "logs", "wait_for_health",
                    "collect_artifacts"}

\* C24: both backends provide the whole capability set, and every call the
\* commands make on the environment controller can be served by either
\* backend.
C24_Interchangeable ==
    /\ Capabilities \subseteq AnsibleRunnerOps
    /\ Capabilities \subseteq DockerRunnerOps
    /\ \A p \in Procs : \A k \in DOMAIN procs[p].calls :
          procs[p].calls[k].op \in Capabilities =>
              procs[p].calls[k].op \in AnsibleRunnerOps \cap DockerRunnerOps

\* C26: a `down` command issued after a `run` or `up` was terminated leaving
\* the environment of run_id r running issues a teardown that targets the
\* namespace of r.
C26_DownTargetsLeftover ==
    \A p \in Procs :
        (procs[p].cmd = "down" /\ procs[p].pc = "done") =>
            \A r \in procs[p].left_running :
                \E k \in DownCalls(p) : procs[p].calls[k].run_id = r

====
